---- MODULE Spec2Model ----
(***************************************************************************)
(* A model of AutoMV_UI: the pipeline orchestrator generate_music_video    *)
(* of app.py (a generator driven by its consumer, two child processes, the *)
(* transient rewrite of AutoMV_repo/config.py) and the source patcher of   *)
(* patch_byteplus.py.                                                      *)
(*                                                                         *)
(* Text is modelled as a sequence of chunks.  A project name is a sequence *)
(* of one-character strings; a file is a sequence of named text fragments. *)
(***************************************************************************)
EXTENDS Integers, Sequences, FiniteSets, TLC

VARIABLES
    env,            \* content of AutoMV_repo/.env: key -> value, Absent when not set
    linesep,        \* os.linesep of the host: "LF" or "CRLF"
    configFile,     \* the bytes of AutoMV_repo/config.py, as chunks
    driverFile,     \* AutoMV_repo/_ui_generate.py: [exists, content]
    projectDirs,    \* the directories result/<name> that exist
    audioCopies,    \* the files result/<name>/<name>.mp3 that exist
    finalVideos,    \* the files result/<name>/mv_<name>.mp4 that exist
    run,            \* per invocation of generate_music_video: its frame
    repoExists,     \* whether the directory AutoMV_repo exists
    repoFiles,      \* the patch targets in AutoMV_repo: path -> [exists, content]
    mainPc,         \* patch_byteplus.main: "idle", "patching", "done", "exit1"
                    \* (sys.exit(1)) or "raised" (uncaught exception)
    mainNext,       \* while patching: which of the five calls of main is next
    mainRuns,       \* how many times the patcher has been started
    patchLog,       \* one record per call of a patch function, in order
    status,         \* the status report last shown in the Settings tab
    lastSave,       \* the last call of save_env_settings: its arguments, .env before it
    pureCall        \* a call of a pure helper: its arguments and what it returned

runVars == <<linesep, env, configFile, driverFile, projectDirs, audioCopies, finalVideos, run>>

patchVars == <<repoExists, repoFiles, mainPc, mainNext, mainRuns, patchLog>>

settingsVars == <<status, lastSave>>

pureVars == <<pureCall>>

vars == <<runVars, patchVars, settingsVars, pureVars>>

-----------------------------------------------------------------------------
(* Bounds *)

MaxConfigLen == 1   \* chunks of config.py
MaxLines == 1       \* lines a child process prints
MaxFileLen == 2     \* chunks of a patch target whose content is arbitrary
MaxMainRuns == 2    \* times the patcher is run in a row
MaxNameLen == 2     \* characters of a name passed to sanitize_music_name

-----------------------------------------------------------------------------
(* Values *)

Runs == {1, 2}
SingleRun == {1}

Absent == "<absent>"

AllowedChars == {"a", "Z", "7", "_", "u", "n", "t", "i", "l", "e", "d"}
Untitled == <<"u", "n", "t", "i", "t", "l", "e", "d">>

SeqsUpTo(S, n) == UNION {[1..k -> S] : k \in 0..n}

\* characters a name can be typed with: in the class [a-zA-Z0-9_], and outside it
\* ("e_acute" stands for a letter that is not ASCII)
NameChars == {"a", "Z", "7", "_", " ", "-", "e_acute"}

\* the music_name argument: None, or a string
MusicNameInputs ==
    {[none |-> TRUE, chars |-> <<>>]}
        \cup {[none |-> FALSE, chars |-> s] : s \in {<<>>, <<"a">>, <<"a", " ">>}}

\* the audio_file argument: None, or a path with its extension
AudioInputs ==
    {[given |-> FALSE, ext |-> ""]}
        \cup {[given |-> TRUE, ext |-> e] : e \in {".mp3", ".WAV", ".ogg"}}

LipSyncModes == {"None", "Jimeng (fast)", "Wan2.2 (slow, cheap)"}
Resolutions == {"480p", "720p"}
ExitCodes == {0, 1, 2}

\* the keys of .env the program reads or writes
EnvKeys ==
    {"ARK_PROVIDER",
     "GEMINI_API_KEY", "DOUBAO_API_KEY", "ALIYUN_OSS_ACCESS_KEY_ID",
     "ALIYUN_OSS_ACCESS_KEY_SECRET", "ALIYUN_OSS_BUCKET_NAME",
     "HUOSHAN_ACCESS_KEY", "HUOSHAN_SECRET_KEY",
     "GPU_ID", "WHISPER_MODEL", "QWEN_OMNI_MODEL", "MODEL_SEEDREAM",
     "MODEL_SEEDANCE", "MODEL_SEED_LLM"}
KeyValues == {Absent, "", "k"}
ProviderValues == {Absent, "byteplus", "volcengine", "other"}

\* config.py: chunks of other text, music_name = "..." fields and line endings
OtherText == [kind |-> "text", value |-> <<>>]
NameField(v) == [kind |-> "field", value |-> v]
\* music_name="v": the assignment with other spacing round the = sign
TightField(v) == [kind |-> "tight_field", value |-> v]
\* other_music_name = "v": the assignment of a name that ends in music_name
SuffixField(v) == [kind |-> "suffix_field", value |-> v]
Eol(e) == [kind |-> "eol", value |-> <<e>>]
LineSeps == {"LF", "CRLF"}
ConfigChunks ==
    {OtherText, NameField(<<"1">>), TightField(<<"1">>), SuffixField(<<"1">>)}
        \cup {Eol(e) : e \in LineSeps}
ConfigContents == SeqsUpTo(ConfigChunks, MaxConfigLen)

NoDriver == [exists |-> FALSE, content |-> <<>>]

-----------------------------------------------------------------------------
(* app.py: pure helpers *)

API_KEYS == <<"GEMINI_API_KEY", "DOUBAO_API_KEY", "ALIYUN_OSS_ACCESS_KEY_ID",
              "ALIYUN_OSS_ACCESS_KEY_SECRET", "ALIYUN_OSS_BUCKET_NAME",
              "HUOSHAN_ACCESS_KEY", "HUOSHAN_SECRET_KEY">>

API_LABELS == <<"Gemini API Key (Google)", "Ark API Key (BytePlus or Volcengine)",
                "Aliyun OSS Access Key ID", "Aliyun OSS Access Key Secret",
                "Aliyun OSS Bucket Name",
                "Huoshan Access Key (China only, for lip-sync)",
                "Huoshan Secret Key (China only, for lip-sync)">>

\* env.get(k): None for a key that is not set
EnvGet(e, k, default) == IF e[k] = Absent THEN default ELSE e[k]

\* not env.get(k)
EnvFalsy(e, k) == e[k] = Absent \/ e[k] = ""

\* re.sub(r"[^a-zA-Z0-9_]", "_", name)
sanitize_music_nameMut(name) == name
sanitize_music_name(name) ==
    [i \in 1..Len(name) |-> IF name[i] \in AllowedChars THEN name[i] ELSE "_"]

\* music_name or "untitled"
OrUntitledMut(m) == m.chars
OrUntitled(m) == IF m.none \/ m.chars = <<>> THEN Untitled ELSE m.chars

RECURSIVE SelectLabels(_, _)
SelectLabels(e, i) ==
    IF i > 2 THEN <<>>
    ELSE (IF EnvFalsy(e, API_KEYS[i]) THEN <<API_LABELS[i]>> ELSE <<>>)
             \o SelectLabels(e, i + 1)

\* [label for k, label in API_KEYS[:2] if not env.get(k)]
MissingKeysMut(e) == IF EnvFalsy(e, API_KEYS[1]) THEN <<API_LABELS[1]>> ELSE <<>>
MissingKeys(e) == SelectLabels(e, 1)

\* provider == "byteplus" and lip_sync != "None"
LipSyncUnsupportedMut(provider, lip_sync) == FALSE
LipSyncUnsupportedAnyMut(provider, lip_sync) == lip_sync # "None"
LipSyncUnsupported(provider, lip_sync) == provider = "byteplus" /\ lip_sync # "None"

\* os.path.splitext(audio_file)[1].lower()
Lower(e) == IF e = ".WAV" THEN ".wav" ELSE e

ExtSupported(e) == Lower(e) \in {".mp3", ".wav"}

\* re.sub(r'music_name\s*=\s*"[^"]*"', f'music_name = "{music_name}"', content)
SubMusicName(content, name) ==
    [i \in 1..Len(content) |->
        CASE content[i].kind \in {"field", "tight_field"} -> NameField(name)
          [] content[i].kind = "suffix_field" -> SuffixField(name)
          [] OTHER -> content[i]]

\* open(path, "r").read(): universal newlines, every line ending is read as "\n"
TextRead(bytes) ==
    [i \in 1..Len(bytes) |-> IF bytes[i].kind = "eol" THEN Eol("LF") ELSE bytes[i]]

\* open(path, "w").write(text): every "\n" is written as os.linesep
TextWrite(text, sep) ==
    [i \in 1..Len(text) |-> IF text[i] = Eol("LF") THEN Eol(sep) ELSE text[i]]

\* line 179: proc.returncode != 0
Stage1FailedMut(code) == FALSE
Stage1Failed(code) == code # 0

\* line 214: proc.returncode != 0
Stage2FailedMut(code) == FALSE
Stage2Failed(code) == code # 0

\* lines 232-233: the finally block writes original_config back
RestoredConfigMut(original_config, sep) == <<>>
RestoredConfig(original_config, sep) == TextWrite(original_config, sep)

Stmt(text, name, res) == [text |-> text, name |-> name, res |-> res]

build_gen_scriptMut(music_name, lip_sync, resolution) ==
    << Stmt("gen_lip_sync_video_jimeng", music_name, ""),
       Stmt("full_video_gen", music_name, resolution) >>
build_gen_script(music_name, lip_sync, resolution) ==
    LET lines == << Stmt("from video_generate.video_generate_pipeline import full_video_gen", <<>>, ""),
                    Stmt("from config import Config", <<>>, "") >>
        lip == IF lip_sync = "Jimeng (fast)"
               THEN << Stmt("from generate_lip_video.gen_lip_sycn_video_jimeng import gen_lip_sync_video_jimeng", <<>>, ""),
                       Stmt("gen_lip_sync_video_jimeng", music_name, "") >>
               ELSE IF lip_sync = "Wan2.2 (slow, cheap)"
               THEN << Stmt("from generate_lip_video.gen_lip_sycn_video import gen_lip_sync_video", <<>>, ""),
                       Stmt("gen_lip_sync_video", music_name, "") >>
               ELSE <<>>
        res == IF resolution = "480p" THEN "480p" ELSE "720p"
    IN  lines \o lip \o << Stmt("full_video_gen", music_name, res) >>

-----------------------------------------------------------------------------
(* app.py: the log *)

Line(kind, args, code) == [kind |-> kind, args |-> args, code |-> code]

ErrAudio == Line("Error: Please upload a music file.", <<>>, 0)
ErrName == Line("Error: Please provide a valid music name (letters, numbers, underscores).", <<>>, 0)
ErrKeys(missing) == Line("Error: Required API keys not configured", missing, 0)
WarnLipSync == Line("Warning: Lip-sync (Jimeng) requires Volcengine (China) credentials. Switching lip-sync to 'None' for BytePlus provider.", <<>>, 0)
ErrExt == Line("Error: Only .mp3 and .wav files are supported.", <<>>, 0)

Header(provider, music_name, lip_sync, resolution) ==
    << Line("=== AutoMV Pipeline ===", <<>>, 0),
       Line("Provider", <<provider>>, 0),
       Line("Music", music_name, 0),
       Line("Lip-sync", <<lip_sync>>, 0),
       Line("Resolution", <<resolution>>, 0),
       Line("Audio copied to", music_name, 0) >>

Stage1Header == << Line("--- Stage 1: Picture Generation ---", <<>>, 0),
                   Line("Running SongFormer analysis + image generation...", <<>>, 0) >>
ChildLine(stage) == Line("child output", <<>>, stage)
Stage1FailedLine(code) == Line("Stage 1 failed with exit code", <<>>, code)
Stage1Complete == Line("Stage 1 complete.", <<>>, 0)
Stage2Header == Line("--- Stage 2: Video Generation ---", <<>>, 0)
Stage2Generating == Line("Generating video clips and assembling final MV...", <<>>, 0)
Stage2FailedLineMut(code) == Line("Stage 2 failed with exit code", <<>>, 0)
Stage2FailedLine(code) == Line("Stage 2 failed with exit code", <<>>, code)
DoneLine(music_name) == Line("Done! Final video", music_name, 0)
NotFoundLine == Line("Pipeline finished but final video not found. Check logs above.", <<>>, 0)

-----------------------------------------------------------------------------
(* app.py: generate_music_video *)

NoProc == [state |-> "none", lines |-> 0, returncode |-> 0]

IdleRun ==
    [ pc |-> "Idle", phases |-> <<"Idle">>, outcome |-> "none",
      audio_file |-> [given |-> FALSE, ext |-> ""],
      name_arg |-> [none |-> TRUE, chars |-> <<>>],   \* music_name as passed in
      lip_arg |-> "None",                             \* lip_sync as passed in
      music_name |-> <<>>, lip_sync |-> "None", resolution |-> "480p",
      provider |-> "", missing |-> <<>>,
      log |-> <<>>, yielded |-> <<>>,
      original_config |-> <<>>, config_content |-> <<>>,
      proc1 |-> NoProc, proc2 |-> NoProc,
      ops |-> <<>>,
      overlap |-> FALSE,      \* config.py was read while another run had it rewritten
      clobber |-> FALSE,      \* the restore overwrote the rewrite of a run in stage
      before |-> [configFile |-> <<>>, driverFile |-> NoDriver,
                  projectDirs |-> {}, audioCopies |-> {}] ]

\* the yield statements inside the try block, and those before it
GuardedYields == {"YStage1Hdr", "YS1Line", "YS1Fail", "YS1Done", "YStage2Hdr",
                  "YS2Line", "YS2Fail", "YFinal"}
UnguardedYields == {"YError", "YWarn", "YHeader"}

Yield(r, snapshot) == Append(run[r].yielded, snapshot)

\* the state of the run in the orchestrator's state machine
Phase(r) == run[r].phases[Len(run[r].phases)]

Has(seq, x) == \E i \in 1..Len(seq) : seq[i] = x
Count(seq, x) == Cardinality({i \in 1..Len(seq) : seq[i] = x})

\* The provider and the line separator vary where a run gets far enough to read
\* them: with both required keys configured.  On a host whose separator is CRLF,
\* config.py is one line ending, of either kind.
RunInit ==
    /\ \E g \in KeyValues, d \in KeyValues, p \in ProviderValues, sep \in LineSeps :
          /\ (EnvFalsy([k \in {"g", "d"} |-> IF k = "g" THEN g ELSE d], "g")
                 \/ EnvFalsy([k \in {"g", "d"} |-> IF k = "g" THEN g ELSE d], "d"))
                => (p = Absent /\ sep = "LF")
          /\ linesep = sep
          /\ configFile \in (IF sep = "LF" THEN ConfigContents
                              ELSE {<<Eol(e)>> : e \in LineSeps})
          /\ env = [k \in EnvKeys |-> IF k = "GEMINI_API_KEY" THEN g
                                       ELSE IF k = "DOUBAO_API_KEY" THEN d
                                       ELSE IF k = "ARK_PROVIDER" THEN p ELSE Absent]
    /\ driverFile = NoDriver
    /\ projectDirs = {}
    /\ audioCopies = {}
    /\ finalVideos = {}
    /\ run = [r \in Runs |-> IdleRun]

Set(r, f) == run' = [run EXCEPT ![r] = f]

\* the frame of a call generate_music_video(a, m, l, q), before its first statement
Called(a, m, l, q) ==
    [IdleRun EXCEPT
        !.pc = "Validating", !.phases = Append(@, "ValidatingInput"),
        !.audio_file = a, !.name_arg = m, !.lip_arg = l,
        !.lip_sync = l, !.resolution = q,
        !.before = [configFile |-> configFile, driverFile |-> driverFile,
                    projectDirs |-> projectDirs, audioCopies |-> audioCopies]]

\* the run has rewritten config.py and has not yet written the original back
InGuard(r) == Has(run[r].ops, "write_config") /\ ~Has(run[r].ops, "restore_config")

ChildRunning(r) == run[r].proc1.state = "running" \/ run[r].proc2.state = "running"

\* writing content to config.py removes the rewrite of another run whose child
\* process is running
Clobbers(r, content) ==
    \E o \in Runs \ {r} :
        /\ InGuard(o) /\ ChildRunning(o)
        /\ configFile = TextWrite(run[o].config_content, linesep)
        /\ content # configFile

\* the generator function is called and its consumer asks for the first value
Start(r) ==
    /\ run[r].pc = "Idle"
    /\ \E a \in AudioInputs, m \in MusicNameInputs, l \in LipSyncModes, q \in Resolutions :
          Set(r, Called(a, m, l, q))
    /\ UNCHANGED <<linesep, env, configFile, driverFile, projectDirs, audioCopies, finalVideos>>
    /\ UNCHANGED <<patchVars, settingsVars, pureVars>>

\* lines 102-121: the checks up to the provider warning
Validate(r) ==
    LET f == run[r]
        name == sanitize_music_name(OrUntitled(f.name_arg))
        missing == MissingKeys(env)
        provider == EnvGet(env, "ARK_PROVIDER", "byteplus")
    IN
    /\ f.pc = "Validating"
    /\ IF ~f.audio_file.given
       THEN Set(r, [f EXCEPT !.pc = "YError", !.outcome = "no_audio",
                             !.yielded = Yield(r, <<ErrAudio>>)])
       ELSE IF name = <<>>
       THEN Set(r, [f EXCEPT !.pc = "YError", !.outcome = "bad_name",
                             !.music_name = name, !.name_arg = IdleRun.name_arg,
                             !.yielded = Yield(r, <<ErrName>>)])
       ELSE IF missing # <<>>
       THEN Set(r, [f EXCEPT !.pc = "YError", !.outcome = "missing_keys",
                             !.music_name = name, !.name_arg = IdleRun.name_arg,
                             !.missing = missing,
                             !.yielded = Yield(r, <<ErrKeys(missing)>>)])
       ELSE IF LipSyncUnsupported(provider, f.lip_sync)
       THEN Set(r, [f EXCEPT !.pc = "YWarn", !.music_name = name,
                             !.name_arg = IdleRun.name_arg,
                             !.provider = provider,
                             !.yielded = Yield(r, <<WarnLipSync>>)])
       ELSE Set(r, [f EXCEPT !.pc = "PrepareDir", !.music_name = name,
                             !.name_arg = IdleRun.name_arg,
                             !.provider = provider])
    /\ UNCHANGED <<linesep, env, configFile, driverFile, projectDirs, audioCopies, finalVideos>>
    /\ UNCHANGED <<patchVars, settingsVars, pureVars>>

\* lines 121-140: the project directory, the extension check, the audio copy, the header
Prepare(r) ==
    LET f == run[r]
        lip == IF f.pc = "YWarn" THEN "None" ELSE f.lip_sync
        log == Header(f.provider, f.music_name, lip, f.resolution)
    IN
    /\ f.pc \in {"YWarn", "PrepareDir"}
    /\ projectDirs' = projectDirs \cup {f.music_name}
    /\ IF ~ExtSupported(f.audio_file.ext)
       THEN /\ Set(r, [f EXCEPT !.pc = "YError", !.outcome = "bad_extension",
                                !.lip_sync = lip,
                                !.ops = f.ops \o <<"makedirs">>,
                                !.yielded = Yield(r, <<ErrExt>>)])
            /\ UNCHANGED audioCopies
       ELSE /\ audioCopies' = audioCopies \cup {f.music_name}
            /\ Set(r, [f EXCEPT !.pc = "YHeader", !.lip_sync = lip,
                                !.ops = f.ops \o <<"makedirs", "copy2">>,
                                !.log = log, !.yielded = Yield(r, log)])
    /\ UNCHANGED <<linesep, env, configFile, driverFile, finalVideos>>
    /\ UNCHANGED <<patchVars, settingsVars, pureVars>>

\* lines 142-162: config.py is read, rewritten, and the try block is entered
OpenGuard(r) ==
    LET f == run[r]
        log == f.log \o Stage1Header
    IN
    /\ f.pc = "YHeader"
    /\ configFile' = TextWrite(SubMusicName(TextRead(configFile), f.music_name), linesep)
    /\ Set(r, [f EXCEPT !.pc = "YStage1Hdr",
                        !.original_config = TextRead(configFile),
                        !.config_content = SubMusicName(TextRead(configFile), f.music_name),
                        !.overlap = \E o \in Runs \ {r} : InGuard(o),
                        !.ops = f.ops \o <<"write_config">>,
                        !.log = log, !.yielded = Yield(r, log)])
    /\ UNCHANGED <<linesep, env, driverFile, projectDirs, audioCopies, finalVideos>>
    /\ UNCHANGED <<patchVars, settingsVars, pureVars>>

\* lines 164-172: Popen of picture_generate.main
LaunchStage1(r) ==
    LET f == run[r] IN
    /\ f.pc = "YStage1Hdr"
    /\ Set(r, [f EXCEPT !.pc = "S1Read", !.phases = Append(@, "Stage1Running"),
                        !.proc1 = [state |-> "running", lines |-> 0, returncode |-> 0],
                        !.ops = f.ops \o <<"popen1">>])
    /\ UNCHANGED <<linesep, env, configFile, driverFile, projectDirs, audioCopies, finalVideos>>
    /\ UNCHANGED <<patchVars, settingsVars, pureVars>>

\* lines 174-176: one line of the child's output
Stage1Output(r) ==
    LET f == run[r]
        log == Append(f.log, ChildLine(1))
    IN
    /\ f.pc \in {"S1Read", "YS1Line"}
    /\ f.proc1.state = "running"
    /\ f.proc1.lines < MaxLines
    /\ Set(r, [f EXCEPT !.pc = "YS1Line", !.proc1.lines = @ + 1,
                        !.log = log, !.yielded = Yield(r, log)])
    /\ UNCHANGED <<linesep, env, configFile, driverFile, projectDirs, audioCopies, finalVideos>>
    /\ UNCHANGED <<patchVars, settingsVars, pureVars>>

\* lines 174, 178-185: end of the child's output, its exit code
Stage1Exit(r) ==
    LET f == run[r] IN
    /\ f.pc \in {"S1Read", "YS1Line"}
    /\ f.proc1.state = "running"
    /\ \E code \in ExitCodes :
          LET log == Append(f.log, IF Stage1Failed(code) THEN Stage1FailedLine(code)
                                                        ELSE Stage1Complete)
          IN Set(r, [f EXCEPT
                       !.pc = IF Stage1Failed(code) THEN "YS1Fail" ELSE "YS1Done",
                       !.phases = IF Stage1Failed(code) THEN Append(@, "Stage1Failed") ELSE @,
                       !.proc1.state = "exited", !.proc1.returncode = code,
                       !.log = log, !.yielded = Yield(r, log)])
    /\ UNCHANGED <<linesep, env, configFile, driverFile, projectDirs, audioCopies, finalVideos>>
    /\ UNCHANGED <<patchVars, settingsVars, pureVars>>

\* lines 187-197: the stage-2 driver is built and written
WriteDriver(r) ==
    LET f == run[r]
        log == f.log \o <<Stage2Header, Stage2Generating>>
    IN
    /\ f.pc = "YS1Done"
    /\ driverFile' = [exists |-> TRUE,
                      content |-> build_gen_script(f.music_name, f.lip_sync, f.resolution)]
    /\ Set(r, [f EXCEPT !.pc = "YStage2Hdr", !.ops = f.ops \o <<"write_driver">>,
                        !.log = log, !.yielded = Yield(r, log)])
    /\ UNCHANGED <<linesep, env, configFile, projectDirs, audioCopies, finalVideos>>
    /\ UNCHANGED <<patchVars, settingsVars, pureVars>>

\* lines 199-207: Popen of _ui_generate.py
LaunchStage2(r) ==
    LET f == run[r] IN
    /\ f.pc = "YStage2Hdr"
    /\ Set(r, [f EXCEPT !.pc = "S2Read", !.phases = Append(@, "Stage2Running"),
                        !.proc2 = [state |-> "running", lines |-> 0, returncode |-> 0],
                        !.ops = f.ops \o <<"popen2">>])
    /\ UNCHANGED <<linesep, env, configFile, driverFile, projectDirs, audioCopies, finalVideos>>
    /\ UNCHANGED <<patchVars, settingsVars, pureVars>>

\* lines 209-211
Stage2Output(r) ==
    LET f == run[r]
        log == Append(f.log, ChildLine(2))
    IN
    /\ f.pc \in {"S2Read", "YS2Line"}
    /\ f.proc2.state = "running"
    /\ f.proc2.lines < MaxLines
    /\ Set(r, [f EXCEPT !.pc = "YS2Line", !.proc2.lines = @ + 1,
                        !.log = log, !.yielded = Yield(r, log)])
    /\ UNCHANGED <<linesep, env, configFile, driverFile, projectDirs, audioCopies, finalVideos>>
    /\ UNCHANGED <<patchVars, settingsVars, pureVars>>

\* lines 209, 213-228: end of the child's output, its exit code, the clean-up and
\* the final line; the child may or may not have left the final video
Stage2Exit(r) ==
    LET f == run[r] IN
    /\ f.pc \in {"S2Read", "YS2Line"}
    /\ f.proc2.state = "running"
    /\ \E code \in ExitCodes, made \in BOOLEAN :
          LET videos == IF made THEN finalVideos \cup {f.music_name} ELSE finalVideos
              failed == Stage2Failed(code)
              log == Append(f.log,
                            IF failed THEN Stage2FailedLine(code)
                            ELSE IF f.music_name \in videos THEN DoneLine(f.music_name)
                            ELSE NotFoundLine)
          IN /\ finalVideos' = videos
             /\ driverFile' = IF failed THEN driverFile ELSE NoDriver
             /\ Set(r, [f EXCEPT
                          !.pc = IF failed THEN "YS2Fail" ELSE "YFinal",
                          !.phases = Append(@, IF failed THEN "Stage2Failed" ELSE "Completed"),
                          !.proc2.state = "exited", !.proc2.returncode = code,
                          !.ops = IF failed \/ ~driverFile.exists THEN @
                                  ELSE @ \o <<"remove_driver">>,
                          !.log = log, !.yielded = Yield(r, log)])
    /\ UNCHANGED <<linesep, env, configFile, projectDirs, audioCopies>>
    /\ UNCHANGED <<patchVars, settingsVars, pureVars>>

\* lines 104, 109, 115, 129: the consumer resumes after an error line; return
FinishRejected(r) ==
    LET f == run[r] IN
    /\ f.pc = "YError"
    /\ Set(r, [f EXCEPT !.pc = "Ended"])
    /\ UNCHANGED <<linesep, env, configFile, driverFile, projectDirs, audioCopies, finalVideos>>
    /\ UNCHANGED <<patchVars, settingsVars, pureVars>>

\* lines 182, 217, 228-233: the consumer resumes after the last line; return, finally
Finish(r) ==
    LET f == run[r] IN
    /\ f.pc \in {"YS1Fail", "YS2Fail", "YFinal"}
    /\ configFile' = RestoredConfig(f.original_config, linesep)
    /\ Set(r, [f EXCEPT !.pc = "Ended",
                        !.clobber = Clobbers(r, RestoredConfig(f.original_config, linesep)),
                        !.outcome = CASE f.pc = "YS1Fail" -> "stage1_failed"
                                      [] f.pc = "YS2Fail" -> "stage2_failed"
                                      [] OTHER -> "completed",
                        !.ops = f.ops \o <<"restore_config">>])
    /\ UNCHANGED <<linesep, env, driverFile, projectDirs, audioCopies, finalVideos>>
    /\ UNCHANGED <<patchVars, settingsVars, pureVars>>

\* the consumer closes the generator at a yield: GeneratorExit is raised there,
\* and the finally block runs when the yield is inside the try block
Close(r) ==
    LET f == run[r] IN
    /\ f.pc \in GuardedYields \cup UnguardedYields
    /\ IF f.pc \in GuardedYields
       THEN /\ configFile' = RestoredConfig(f.original_config, linesep)
            /\ Set(r, [f EXCEPT !.pc = "Ended", !.outcome = "closed",
                                !.clobber = Clobbers(r, RestoredConfig(f.original_config,
                                                                       linesep)),
                                !.ops = f.ops \o <<"restore_config">>])
       ELSE /\ UNCHANGED configFile
            /\ Set(r, [f EXCEPT !.pc = "Ended",
                                !.outcome = IF f.pc = "YError" THEN @ ELSE "closed"])
    /\ UNCHANGED <<linesep, env, driverFile, projectDirs, audioCopies, finalVideos>>
    /\ UNCHANGED <<patchVars, settingsVars, pureVars>>

\* a statement of the try block raises (Popen, the read of the child's output,
\* the write of the driver): the finally block runs and the exception propagates
Raise(r) ==
    LET f == run[r] IN
    /\ f.pc \in {"YStage1Hdr", "S1Read", "YS1Line", "YS1Done", "YStage2Hdr",
                 "S2Read", "YS2Line"}
    /\ configFile' = RestoredConfig(f.original_config, linesep)
    /\ Set(r, [f EXCEPT !.pc = "Ended", !.outcome = "raised",
                        !.clobber = Clobbers(r, RestoredConfig(f.original_config, linesep)),
                        !.ops = f.ops \o <<"restore_config">>])
    /\ UNCHANGED <<linesep, env, driverFile, projectDirs, audioCopies, finalVideos>>
    /\ UNCHANGED <<patchVars, settingsVars, pureVars>>

\* the steps of a run once it is called
Body(r) ==
    \/ Validate(r)
    \/ Prepare(r)
    \/ OpenGuard(r)
    \/ LaunchStage1(r)
    \/ Stage1Output(r)
    \/ Stage1Exit(r)
    \/ WriteDriver(r)
    \/ LaunchStage2(r)
    \/ Stage2Output(r)
    \/ Stage2Exit(r)
    \/ FinishRejected(r)
    \/ Finish(r)
    \/ Close(r)
    \/ Raise(r)

Step(r) ==
    \/ Start(r)
    \/ Body(r)

-----------------------------------------------------------------------------
(* app.py: the settings *)

MODEL_KEYS == <<"GPU_ID", "WHISPER_MODEL", "QWEN_OMNI_MODEL", "MODEL_SEEDREAM",
                "MODEL_SEEDANCE", "MODEL_SEED_LLM">>

\* line 45
all_keys == API_KEYS \o MODEL_KEYS

\* what is typed into a text box of the Settings tab, and the provider the radio
\* button passes (None and "" are both falsy: "")
TypedValues == {"", " ", " j "}
ProviderInputs == {"", "byteplus", "volcengine", " volcengine "}

\* str.strip() on the values above
Strip(v) ==
    CASE v = " " -> ""
      [] v = " j " -> "j"
      [] v = " volcengine " -> "volcengine"
      [] OTHER -> v

\* dotenv.set_key: the line of the key is rewritten, the other lines are kept
set_key(e, key, value) == [e EXCEPT ![key] = value]

\* line 54: not (val and val.strip())
BlankMut(val) == val = ""
Blank(val) == val = "" \/ Strip(val) = ""

RECURSIVE SaveValues(_, _, _)
\* lines 53-55: for key, val in zip(all_keys, values)
SaveValues(e, values, i) ==
    IF i > Len(all_keys) \/ i > Len(values) THEN e
    ELSE SaveValues(IF Blank(values[i]) THEN e ELSE set_key(e, all_keys[i], Strip(values[i])),
                    values, i + 1)

RECURSIVE MissingLabels(_, _)
\* [label for k, label in API_KEYS if not env.get(k)]
MissingLabels(e, i) ==
    IF i > Len(API_KEYS) THEN <<>>
    ELSE (IF EnvFalsy(e, API_KEYS[i]) THEN <<API_LABELS[i]>> ELSE <<>>)
             \o MissingLabels(e, i + 1)

\* the status text: the provider named, the keys reported missing, the BytePlus note
StatusText(fn, prov, missing, note) ==
    [fn |-> fn, prov |-> prov, missing |-> missing, note |-> note]

\* lines 57-71: the report save_env_settings returns
SaveStatus(e) ==
    LET prov == EnvGet(e, "ARK_PROVIDER", "byteplus")
    IN StatusText("save_env_settings", prov, MissingLabels(e, 1), prov = "byteplus")

\* lines 74-84
get_env_status(e) ==
    StatusText("get_env_status", EnvGet(e, "ARK_PROVIDER", "byteplus"),
               MissingLabels(e, 1), FALSE)

\* lines 44-55: the content of .env after save_env_settings(provider, *values); a
\* file that does not exist is created empty first
save_env_settings(e, provider, values) ==
    SaveValues(set_key(e, "ARK_PROVIDER",
                       IF provider # "" THEN Strip(provider) ELSE "byteplus"),
               values, 1)

NoSave == [done |-> FALSE, provider |-> "", values |-> <<>>,
           before |-> [k \in EnvKeys |-> Absent]]

\* the text boxes filled in: the first API key and the first model setting vary,
\* the others are left empty
SaveInputs ==
    {[i \in 1..Len(all_keys) |-> IF i = 1 THEN a ELSE IF i = 8 THEN c ELSE ""] :
        a \in TypedValues, c \in TypedValues}

\* the Save Settings button
SaveEnvSettings ==
    /\ \E provider \in ProviderInputs, values \in SaveInputs :
          /\ env' = save_env_settings(env, provider, values)
          /\ status' = SaveStatus(env')
          /\ lastSave' = [done |-> TRUE, provider |-> provider, values |-> values,
                          before |-> env]
    /\ UNCHANGED <<linesep, configFile, driverFile, projectDirs, audioCopies,
                   finalVideos, run>>
    /\ UNCHANGED <<patchVars, pureVars>>

\* line 366: the application is started again and the Settings tab is built
GetEnvStatus ==
    /\ status # get_env_status(env)
    /\ status' = get_env_status(env)
    /\ UNCHANGED <<runVars, lastSave>>
    /\ UNCHANGED <<patchVars, pureVars>>

SettingsNext ==
    \/ SaveEnvSettings
    \/ GetEnvStatus

-----------------------------------------------------------------------------
(* app.py: sanitize_music_name and _build_gen_script called on their own *)

\* the resolution argument: the two choices of the dropdown, and other values
ResolutionArgs == Resolutions \cup {"1080p", ""}

NameArgs ==
    {[none |-> TRUE, chars |-> <<>>]}
        \cup {[none |-> FALSE, chars |-> n] : n \in SeqsUpTo(NameChars, MaxNameLen)}

NoCall == [pc |-> "none", arg |-> [none |-> TRUE, chars |-> <<>>],
           lip_sync |-> "None", resolution |-> "",
           out |-> <<>>, again |-> <<>>, music_name |-> <<>>, script |-> <<>>]

PureInit ==
    \E m \in NameArgs, l \in LipSyncModes, q \in ResolutionArgs :
        pureCall = [NoCall EXCEPT !.pc = "args", !.arg = m, !.lip_sync = l,
                                  !.resolution = q]

\* sanitize_music_name(name)
CallSanitize ==
    /\ pureCall.pc = "args"
    /\ pureCall' = [pureCall EXCEPT !.pc = "sanitized",
                                    !.out = sanitize_music_name(pureCall.arg.chars)]
    /\ UNCHANGED <<runVars, patchVars, settingsVars>>

\* sanitize_music_name(sanitize_music_name(name))
CallSanitizeAgain ==
    /\ pureCall.pc = "sanitized"
    /\ pureCall' = [pureCall EXCEPT !.pc = "twice",
                                    !.again = sanitize_music_name(pureCall.out)]
    /\ UNCHANGED <<runVars, patchVars, settingsVars>>

\* lines 106 and 190: the name of the run, and the driver built for it
CallBuildGenScript ==
    LET name == sanitize_music_name(OrUntitled(pureCall.arg)) IN
    /\ pureCall.pc \in {"args", "sanitized", "twice"}
    /\ pureCall' = [pureCall EXCEPT
                       !.pc = "built", !.music_name = name,
                       !.script = build_gen_script(name, pureCall.lip_sync,
                                                   pureCall.resolution)]
    /\ UNCHANGED <<runVars, patchVars, settingsVars>>

PureNext ==
    \/ CallSanitize
    \/ CallSanitizeAgain
    \/ CallBuildGenScript

-----------------------------------------------------------------------------
(* patch_byteplus.py: text *)

CONFIG == "config.py"
PICTURE == "picture_generate/picture.py"
VIDEO == "video_generate/video_generate_pipeline.py"
GEMINI == "video_generate/call_gemini.py"
LIPSYNC == "generate_lip_video/gen_lip_sycn_video_jimeng.py"

TargetOrder == <<CONFIG, PICTURE, VIDEO, GEMINI, LIPSYNC>>
Targets == {TargetOrder[i] : i \in 1..5}

NoFile == [exists |-> FALSE, content |-> <<>>]
File(content) == [exists |-> TRUE, content |-> content]

\* A file is a sequence of chunks, each a fragment of text known by name.  The
\* chunks that hold one of the marker strings the patcher looks for:
Needles(chunk) ==
    CASE chunk = "BP_TRY" -> {"byteplussdkarkruntime"}
      [] chunk = "SDK_REF" -> {"byteplussdkarkruntime"}
      [] chunk = "ARK_BLOCK" -> {"ARK_PROVIDER", "get_ark_base_url"}
      [] chunk = "ARK_CLIENT_URL" -> {"get_ark_base_url"}
      [] chunk = "INIT_CFG_URL" -> {"get_ark_base_url"}
      [] chunk = "BASE_URL_CFG" -> {"get_ark_base_url"}
      [] chunk = "SET_AK_SK_CFG" -> {"config.HUOSHAN_ACCESS_KEY"}
      [] chunk = "HUOSHAN_REF" -> {"config.HUOSHAN_ACCESS_KEY"}
      [] OTHER -> {}

\* needle in content
In(needle, content) ==
    \E i \in 1..Len(content) : content[i] = needle \/ needle \in Needles(content[i])

\* content.replace(old, new, 1)
ReplaceFirstMut(content, old, new) ==
    IF \A i \in 1..Len(content) : content[i] # old THEN content
    ELSE LET i == CHOOSE k \in 1..Len(content) :
                      content[k] = old /\ \A j \in (k + 1)..Len(content) : content[j] # old
         IN SubSeq(content, 1, i - 1) \o new \o SubSeq(content, i + 1, Len(content))
ReplaceFirst(content, old, new) ==
    IF \A i \in 1..Len(content) : content[i] # old THEN content
    ELSE LET i == CHOOSE k \in 1..Len(content) :
                      content[k] = old /\ \A j \in 1..(k - 1) : content[j] # old
         IN SubSeq(content, 1, i - 1) \o new \o SubSeq(content, i + 1, Len(content))

Rep(old, new) == [old |-> old, new |-> new]

\* patch_config: the replacements list
ConfigReplacements ==
    << Rep("MUSIC_NAME_1", <<"MUSIC_NAME_1", "ARK_BLOCK">>),
       Rep("OPENAI_ERR", <<"DOUBAO_ERR">>) >>

\* patch_picture
PictureReplacements ==
    << Rep("VOLC_IMPORT", <<"BP_TRY", "VOLC_IMPORT">>),
       Rep("ARK_CLIENT", <<"ARK_CLIENT_URL">>),
       Rep("SEEDREAM_LIT", <<"SEEDREAM_CFG">>),
       Rep("SEED_LLM_LIT", <<"SEED_LLM_CFG">>) >>

\* patch_video_pipeline
VideoReplacements ==
    << Rep("VOLC_IMPORT", <<"BP_TRY", "VOLC_IMPORT">>),
       Rep("INIT_VOLC_URL", <<"INIT_CFG_URL">>),
       Rep("SEEDANCE_LIT", <<"SEEDANCE_CFG">>) >>

\* patch_call_gemini
GeminiReplacements ==
    << Rep("BASE_URL_LIT", <<"BASE_URL_CFG">>),
       Rep("SEED_LLM_LIT", <<"SEED_LLM_CFG">>) >>

\* patch_lip_sync: the chunk the regular expression matches (set_ak and set_sk with
\* non-empty single-quoted arguments) and its replacement
LipSyncPattern == "SET_AK_SK_LIT"
LipSyncReplacement == <<"JIMENG_NOTE", "SET_AK_SK_CFG">>

RECURSIVE Flatten(_)
Flatten(seqs) == IF seqs = <<>> THEN <<>> ELSE Head(seqs) \o Flatten(Tail(seqs))

\* re.sub(pattern, replacement, content): every match is replaced
ReSub(content) ==
    Flatten([i \in 1..Len(content) |->
                IF content[i] = LipSyncPattern THEN LipSyncReplacement
                ELSE <<content[i]>>])

-----------------------------------------------------------------------------
(* patch_byteplus.py: the patch functions *)

Report(kind, pattern) == [kind |-> kind, pattern |-> pattern]

\* what a call of a patch function did: its return value, what it printed, the
\* file it left, whether it wrote the file, whether it raised
Result(ret, out, file, wrote, raised) ==
    [ret |-> ret, out |-> out, file |-> file, wrote |-> wrote, raised |-> raised]

RECURSIVE ApplyReplacements(_, _, _)
\* lines 36-40: the loop over the replacements
ApplyReplacements(content, replacements, i) ==
    IF i > Len(replacements) THEN [content |-> content, out |-> <<>>]
    ELSE IF ~In(replacements[i].old, content)
    THEN LET rest == ApplyReplacements(content, replacements, i + 1)
         IN [content |-> rest.content,
             out |-> <<Report("WARN pattern not found", replacements[i].old)>> \o rest.out]
    ELSE ApplyReplacements(
             ReplaceFirst(content, replacements[i].old, replacements[i].new),
             replacements, i + 1)

\* line 42: content == original
NoChangeMut(content, original) == FALSE
NoChange(content, original) == content = original

patch_file(file, replacements, marker) ==
    IF ~file.exists
    THEN Result(FALSE, <<Report("SKIP not found", "")>>, file, FALSE, FALSE)
    ELSE IF marker # "" /\ In(marker, file.content)
    THEN Result(TRUE, <<Report("OK already patched", "")>>, file, FALSE, FALSE)
    ELSE LET applied == ApplyReplacements(file.content, replacements, 1)
         IN IF NoChange(applied.content, file.content)
            THEN Result(TRUE, applied.out \o <<Report("OK no changes needed", "")>>,
                        file, FALSE, FALSE)
            ELSE Result(TRUE, applied.out \o <<Report("PATCHED", "")>>,
                        File(applied.content), TRUE, FALSE)

patch_config(file) ==
    IF ~file.exists
    THEN Result(FALSE, <<>>, file, FALSE, TRUE)    \* open() raises FileNotFoundError
    ELSE IF In("ARK_PROVIDER", file.content)
    THEN Result(TRUE, <<Report("OK already patched", "")>>, file, FALSE, FALSE)
    ELSE patch_file(file, ConfigReplacements, "byteplussdkarkruntime")

patch_picture(file) == patch_file(file, PictureReplacements, "byteplussdkarkruntime")

patch_video_pipeline(file) == patch_file(file, VideoReplacements, "byteplussdkarkruntime")

patch_call_gemini(file) == patch_file(file, GeminiReplacements, "get_ark_base_url")

patch_lip_sync(file) ==
    IF ~file.exists
    THEN Result(FALSE, <<Report("SKIP not found", "")>>, file, FALSE, FALSE)
    ELSE IF In("config.HUOSHAN_ACCESS_KEY", file.content)
    THEN Result(TRUE, <<Report("OK already patched", "")>>, file, FALSE, FALSE)
    ELSE LET new_content == ReSub(file.content)
         IN IF new_content = file.content
            THEN Result(FALSE, <<Report("WARN could not find set_ak/set_sk pattern", "")>>,
                        file, FALSE, FALSE)
            ELSE Result(TRUE, <<Report("PATCHED", "")>>, File(new_content), TRUE, FALSE)

-----------------------------------------------------------------------------
(* patch_byteplus.py: main *)

\* the contents a target can start with
Alphabet(t) ==
    CASE t = CONFIG -> {"MUSIC_NAME_1", "OPENAI_ERR", "ARK_BLOCK", "SDK_REF", "TEXT"}
      [] t = PICTURE -> {"VOLC_IMPORT", "ARK_CLIENT", "SEEDREAM_LIT", "SEED_LLM_LIT",
                         "BP_TRY", "TEXT"}
      [] t = VIDEO -> {"VOLC_IMPORT", "INIT_VOLC_URL", "SEEDANCE_LIT", "BP_TRY", "TEXT"}
      [] t = GEMINI -> {"BASE_URL_LIT", "SEED_LLM_LIT", "BASE_URL_CFG", "TEXT"}
      [] t = LIPSYNC -> {"SET_AK_SK_LIT", "SET_AK_SK_EMPTY", "HUOSHAN_REF", "TEXT"}

\* the targets as the upstream repository ships them
Pristine(t) ==
    CASE t = CONFIG -> <<"TEXT", "MUSIC_NAME_1", "TEXT", "OPENAI_ERR">>
      [] t = PICTURE -> <<"VOLC_IMPORT", "ARK_CLIENT", "SEEDREAM_LIT", "SEED_LLM_LIT">>
      [] t = VIDEO -> <<"VOLC_IMPORT", "INIT_VOLC_URL", "SEEDANCE_LIT">>
      [] t = GEMINI -> <<"BASE_URL_LIT", "SEED_LLM_LIT">>
      [] t = LIPSYNC -> <<"TEXT", "SET_AK_SK_LIT">>

\* One target is missing or holds any content over its alphabet; the other targets
\* are all as shipped, or all missing.  Without AutoMV_repo no target exists.
PatchInit ==
    /\ repoExists \in BOOLEAN
    /\ IF repoExists
       THEN \E t \in Targets, others \in BOOLEAN :
              \E f \in {NoFile} \cup {File(c) : c \in SeqsUpTo(Alphabet(t), MaxFileLen)} :
                repoFiles = [u \in Targets |->
                                IF u = t THEN f
                                ELSE IF others THEN File(Pristine(u)) ELSE NoFile]
       ELSE repoFiles = [u \in Targets |-> NoFile]
    /\ mainPc = "idle"
    /\ mainNext = 1
    /\ mainRuns = 0
    /\ patchLog = <<>>

RunIdle ==
    /\ linesep = "LF"
    /\ env = [k \in EnvKeys |-> Absent]
    /\ configFile = <<>>
    /\ driverFile = NoDriver
    /\ projectDirs = {}
    /\ audioCopies = {}
    /\ finalVideos = {}
    /\ run = [r \in Runs |-> IdleRun]

\* lines 193-196: the patcher is started, again once an earlier run of it is over
MainStart ==
    /\ mainPc \in {"idle", "done", "raised", "exit1"}
    /\ mainRuns < MaxMainRuns
    /\ mainRuns' = mainRuns + 1
    /\ mainPc' = IF repoExists THEN "patching" ELSE "exit1"
    /\ mainNext' = 1
    /\ UNCHANGED <<repoExists, repoFiles, patchLog>>
    /\ UNCHANGED <<runVars, settingsVars, pureVars>>

\* one call of main: the patch function of target k is applied to the file
Call(k, result) ==
    /\ mainPc = "patching"
    /\ mainNext = k
    /\ repoFiles' = [repoFiles EXCEPT ![TargetOrder[k]] = result.file]
    /\ patchLog' = Append(patchLog,
                          [run |-> mainRuns, target |-> TargetOrder[k],
                           before |-> repoFiles[TargetOrder[k]], result |-> result])
    /\ mainPc' = IF result.raised THEN "raised"
                 ELSE IF k = 5 THEN "done" ELSE "patching"
    /\ mainNext' = IF result.raised \/ k = 5 THEN k ELSE k + 1
    /\ UNCHANGED <<repoExists, mainRuns>>
    /\ UNCHANGED <<runVars, settingsVars, pureVars>>

\* lines 198-203
MainPatchConfig == Call(1, patch_config(repoFiles[CONFIG]))
MainPatchPicture == Call(2, patch_picture(repoFiles[PICTURE]))
MainPatchVideoPipeline == Call(3, patch_video_pipeline(repoFiles[VIDEO]))
MainPatchCallGemini == Call(4, patch_call_gemini(repoFiles[GEMINI]))
MainPatchLipSync == Call(5, patch_lip_sync(repoFiles[LIPSYNC]))

PatchNext ==
    \/ MainStart
    \/ MainPatchConfig
    \/ MainPatchPicture
    \/ MainPatchVideoPipeline
    \/ MainPatchCallGemini
    \/ MainPatchLipSync

\* the Settings tab as it is built, and no pure helper called on its own
SettingsIdle ==
    /\ status = get_env_status(env)
    /\ lastSave = NoSave

PureIdle == pureCall = NoCall

PatchSpecInit == PatchInit /\ RunIdle /\ SettingsIdle /\ PureIdle

PatchSpec == PatchSpecInit /\ [][PatchNext]_vars

-----------------------------------------------------------------------------
(* The orchestrator alone *)

\* the patcher has run before the UI is started; it is not running
PatchIdle ==
    /\ repoExists = TRUE
    /\ repoFiles = [t \in Targets |-> NoFile]
    /\ mainPc = "idle"
    /\ mainNext = 1
    /\ mainRuns = 0
    /\ patchLog = <<>>

Init == RunInit /\ PatchIdle /\ SettingsIdle /\ PureIdle

Next == \E r \in SingleRun : Step(r)

Spec == Init /\ [][Next]_vars

-----------------------------------------------------------------------------
(* Two runs overlapping *)

\* config.py as the upstream repository ships it, with the line endings of the
\* host: a lone run restores it exactly
ShippedConfig(sep) == <<OtherText, NameField(<<"1">>), Eol(sep)>>

\* Two clicks on Generate: both calls are made, neither has run a statement yet.
\* The keys are configured; the two project names differ.
RaceInit ==
    /\ linesep = "LF"
    /\ env = [k \in EnvKeys |-> IF k \in {"GEMINI_API_KEY", "DOUBAO_API_KEY"}
                                 THEN "k" ELSE Absent]
    /\ configFile = ShippedConfig(linesep)
    /\ driverFile = NoDriver
    /\ projectDirs = {}
    /\ audioCopies = {}
    /\ finalVideos = {}
    /\ \E e \in {".mp3", ".ogg"} :
          run = [r \in Runs |->
                    Called([given |-> TRUE, ext |-> IF r = 1 THEN ".mp3" ELSE e],
                           [none |-> FALSE,
                            chars |-> IF r = 1 THEN <<"a">> ELSE <<"a", " ">>],
                           "None", "480p")]

RaceSpecInit == RaceInit /\ PatchIdle /\ SettingsIdle /\ PureIdle

RaceNext == \E r \in Runs : Body(r)

RaceSpec == RaceSpecInit /\ [][RaceNext]_vars

-----------------------------------------------------------------------------
(* The settings alone *)

SettingsInit ==
    /\ env \in {[k \in EnvKeys |-> IF k = "GEMINI_API_KEY" THEN g
                                    ELSE IF k = "GPU_ID" THEN m
                                    ELSE IF k = "ARK_PROVIDER" THEN p ELSE Absent] :
                    g \in KeyValues, m \in {Absent, "0"},
                    p \in ProviderValues}
    /\ linesep = "LF"
    /\ configFile = <<>>
    /\ driverFile = NoDriver
    /\ projectDirs = {}
    /\ audioCopies = {}
    /\ finalVideos = {}
    /\ run = [r \in Runs |-> IdleRun]

SettingsSpecInit == SettingsInit /\ PatchIdle /\ SettingsIdle /\ PureIdle

SettingsSpec == SettingsSpecInit /\ [][SettingsNext]_vars

-----------------------------------------------------------------------------
(* The pure helpers alone *)

PureSpecInit == PureInit /\ RunIdle /\ PatchIdle /\ SettingsIdle

PureSpec == PureSpecInit /\ [][PureNext]_vars

-----------------------------------------------------------------------------
(* Properties of generate_music_video *)

Ended(r) == run[r].pc = "Ended"
LastOf(seq) == seq[Len(seq)]

LipSyncCalls == {"gen_lip_sync_video_jimeng", "gen_lip_sync_video"}
HasLipSyncCall(content) == \E i \in 1..Len(content) : content[i].text \in LipSyncCalls

\* C1: once a run that rewrote config.py has ended, config.py holds, byte for byte,
\* the content it had before the run, whatever the outcome (a stage failed, both
\* succeeded, a statement of the guarded body raised, the consumer closed the stream
\* at a yield).
C1_ConfigRestored ==
    \A r \in Runs :
        (Ended(r) /\ Has(run[r].ops, "write_config"))
            => configFile = run[r].before.configFile

\* C2: after stage 1 exited with a non-zero code N, the log (and the last snapshot
\* yielded) ends with the line "Stage 1 failed with exit code N", stage 2 is not
\* launched and the driver file is not written.
C2_Stage1FailureStops ==
    \A r \in Runs :
        (run[r].proc1.state = "exited" /\ run[r].proc1.returncode # 0)
            => /\ run[r].log # <<>>
               /\ LastOf(run[r].log) = Stage1FailedLine(run[r].proc1.returncode)
               /\ LastOf(run[r].yielded) = run[r].log
               /\ ~Has(run[r].ops, "popen2")
               /\ run[r].proc2.state = "none"
               /\ ~Has(run[r].ops, "write_driver")
               /\ driverFile = run[r].before.driverFile

C2_Witness ==
    \E r \in Runs :
        /\ Ended(r) /\ run[r].outcome = "stage1_failed"
        /\ run[r].proc1.state = "exited" /\ run[r].proc1.returncode = 2
        /\ run[r].proc1.lines = 1

\* C3: with provider byteplus and a requested lip-sync mode other than None, the
\* warning is the first snapshot yielded (so it is out before stage 1 is launched),
\* the mode in use from the first step after the warning on is None, and the driver
\* written holds no lip-sync call.
C3_ByteplusDowngrade ==
    \A r \in Runs :
        (run[r].provider = "byteplus" /\ run[r].lip_arg # "None")
            => /\ run[r].yielded # <<>>
               /\ run[r].yielded[1] = <<WarnLipSync>>
               /\ Has(run[r].ops, "makedirs") => run[r].lip_sync = "None"
               /\ (Has(run[r].ops, "write_driver") /\ driverFile.exists)
                      => ~HasLipSyncCall(driverFile.content)

C3_Witness ==
    \E r \in Runs :
        /\ run[r].provider = "byteplus" /\ run[r].lip_arg = "Jimeng (fast)"
        /\ run[r].pc = "S2Read"
        /\ driverFile.exists

\* C5: a run rejected for its audio file (none given, or an extension other than
\* .mp3 and .wav) has yielded the error line and has touched nothing: no project
\* directory, no audio copy, no write of config.py, no child process.
C5_RejectedNoSideEffect ==
    \A r \in Runs :
        run[r].outcome \in {"no_audio", "bad_extension"}
            => /\ LastOf(run[r].yielded) \in {<<ErrAudio>>, <<ErrExt>>}
               /\ projectDirs = run[r].before.projectDirs
               /\ audioCopies = run[r].before.audioCopies
               /\ configFile = run[r].before.configFile
               /\ ~Has(run[r].ops, "write_config")
               /\ run[r].proc1.state = "none" /\ run[r].proc2.state = "none"

\* C6: a run given an audio file while GEMINI_API_KEY or DOUBAO_API_KEY is missing
\* or empty yields, as its only snapshot, the error naming exactly the missing keys,
\* and ends with the files, directories and child processes untouched.
C6_MissingKeysNoSideEffect ==
    \A r \in Runs :
        ( /\ run[r].audio_file.given
          /\ run[r].pc \notin {"Idle", "Validating"}
          /\ \E i \in 1..2 : EnvFalsy(env, API_KEYS[i]) )
            => /\ run[r].pc \in {"YError", "Ended"}
               /\ run[r].outcome = "missing_keys"
               /\ Len(run[r].yielded) = 1 /\ Len(run[r].yielded[1]) = 1
               /\ run[r].yielded[1][1].kind = ErrKeys(<<>>).kind
               /\ \A i \in 1..2 :
                     Has(run[r].yielded[1][1].args, API_LABELS[i])
                         <=> EnvFalsy(env, API_KEYS[i])
               /\ run[r].ops = <<>>
               /\ projectDirs = run[r].before.projectDirs
               /\ audioCopies = run[r].before.audioCopies
               /\ configFile = run[r].before.configFile
               /\ driverFile = run[r].before.driverFile
               /\ run[r].proc1.state = "none" /\ run[r].proc2.state = "none"

C6_Witness ==
    \E r \in Runs :
        /\ Ended(r) /\ run[r].outcome = "missing_keys"
        /\ env["GEMINI_API_KEY"] = "k" /\ env["DOUBAO_API_KEY"] = ""

Edges ==
    { <<"Idle", "ValidatingInput">>, <<"ValidatingInput", "Stage1Running">>,
      <<"Stage1Running", "Stage1Failed">>, <<"Stage1Running", "Stage2Running">>,
      <<"Stage2Running", "Stage2Failed">>, <<"Stage2Running", "Completed">> }

Terminal == {"Stage1Failed", "Stage2Failed", "Completed"}

FollowsEdges(r) ==
    \A i \in 1..(Len(run[r].phases) - 1) :
        <<run[r].phases[i], run[r].phases[i + 1]>> \in Edges

ValidationPassed(r) ==
    /\ run[r].audio_file.given
    /\ ExtSupported(run[r].audio_file.ext)
    /\ run[r].music_name # <<>>
    /\ \A i \in 1..2 : ~EnvFalsy(env, API_KEYS[i])

LaunchDiscipline(r) ==
    /\ Count(run[r].ops, "popen1") <= 1
    /\ Count(run[r].ops, "popen2") <= 1
    /\ Has(run[r].ops, "popen1") <=> Has(run[r].phases, "Stage1Running")
    /\ Has(run[r].ops, "popen2") <=> Has(run[r].phases, "Stage2Running")
    /\ Has(run[r].ops, "popen1") => ValidationPassed(r)
    /\ Has(run[r].ops, "popen2")
          => run[r].proc1.state = "exited" /\ run[r].proc1.returncode = 0
    /\ Phase(r) = "Stage1Failed"
          => run[r].proc1.state = "exited" /\ run[r].proc1.returncode # 0
    /\ Phase(r) = "Stage2Failed"
          => run[r].proc2.state = "exited" /\ run[r].proc2.returncode # 0
    /\ Phase(r) = "Completed"
          => run[r].proc2.state = "exited" /\ run[r].proc2.returncode = 0

C10_DriverDeleted ==
    \A r \in Runs :
        (Ended(r) /\ run[r].proc2.state = "exited") => ~driverFile.exists

\* C15: two runs on the same config.py race only when they overlap.  A restore
\* removes the rewrite of the other run, whose child process is running, only if
\* one of the two read config.py while the other had it rewritten; and when neither
\* did, config.py holds, once both have ended, what it held before the first.  The
\* interleavings of the claim are those of C15_Witness.
C15_RaceNeedsOverlap ==
    /\ \A r \in Runs : run[r].clobber => \E o \in Runs : run[o].overlap
    /\ ((\A r \in Runs : Ended(r)) /\ (\A r \in Runs : ~run[r].overlap))
           => configFile = run[1].before.configFile

\* both runs have ended; the restore of one removed the rewrite of the other while
\* the other's child process was running, and config.py is not what it was before
\* the first run
C15_Witness ==
    /\ \A r \in Runs : Ended(r) /\ Has(run[r].ops, "write_config")
    /\ \E r \in Runs : run[r].clobber
    /\ configFile # run[1].before.configFile
    /\ run[1].before.configFile = run[2].before.configFile

IsPrefix(a, b) == Len(a) <= Len(b) /\ SubSeq(b, 1, Len(a)) = a

\* C16: each snapshot a run yields is a prefix of the one it yields next: a line
\* once shown stays in every later snapshot.
C16_SnapshotsGrow ==
    \A r \in Runs :
        \A i \in 1..(Len(run[r].yielded) - 1) :
            IsPrefix(run[r].yielded[i], run[r].yielded[i + 1])

FinalArtifactKinds ==
    {"Done! Final video", "Pipeline finished but final video not found. Check logs above."}

\* C17: once the stage-2 child has exited with a non-zero code N, the log, which is
\* the last snapshot yielded, ends with the line "Stage 2 failed with exit code N",
\* holds no final-artifact line, and the run, which launched each stage once, is
\* at its last yield or has ended.
C17_Stage2FailureStops ==
    \A r \in Runs :
        (run[r].proc2.state = "exited" /\ run[r].proc2.returncode # 0)
            => /\ run[r].log # <<>>
               /\ LastOf(run[r].log).kind = "Stage 2 failed with exit code"
               /\ LastOf(run[r].log).code = run[r].proc2.returncode
               /\ LastOf(run[r].yielded) = run[r].log
               /\ \A i \in 1..Len(run[r].log) : run[r].log[i].kind \notin FinalArtifactKinds
               /\ Count(run[r].ops, "popen1") = 1 /\ Count(run[r].ops, "popen2") = 1
               /\ run[r].pc \in {"YS2Fail", "Ended"}
               /\ Ended(r) => run[r].outcome \in {"stage2_failed", "closed"}

\* stage 2 printed a line and exited with code 2; the run was read to its end
C17_Witness ==
    \E r \in Runs :
        /\ Ended(r) /\ run[r].outcome = "stage2_failed"
        /\ run[r].proc2.state = "exited" /\ run[r].proc2.returncode = 2
        /\ run[r].proc2.lines = 1

\* C19: the name of a run is never empty, so no run ends with the music-name error
\* and the error line is never yielded: a run given an audio file that is past
\* its name check holds a name of one character at least, all of [A-Za-z0-9_].
C19_NameNeverEmpty ==
    \A r \in Runs :
        /\ run[r].outcome # "bad_name"
        /\ \A i \in 1..Len(run[r].yielded) : ~Has(run[r].yielded[i], ErrName)
        /\ (run[r].audio_file.given /\ run[r].pc \notin {"Idle", "Validating"})
               => /\ Len(run[r].music_name) >= 1
                  /\ \A i \in 1..Len(run[r].music_name) :
                        run[r].music_name[i] \in AllowedChars

\* a run called without a name (None, or the empty text box) that completed as
\* project "untitled"
C19_Witness ==
    \E r \in Runs :
        /\ Ended(r) /\ run[r].outcome = "completed"
        /\ run[r].music_name = Untitled
        /\ Untitled \in projectDirs

\* C20: while a child process launched by a run is running, every music_name field
\* of config.py holds the run's project name: the original content is written back
\* only after the last child launched has exited.
C20_ConfigHeldWhileChildRuns ==
    \A r \in Runs :
        ChildRunning(r)
            => \A i \in 1..Len(configFile) :
                  configFile[i].kind = "field" => configFile[i].value = run[r].music_name

\* the assignments of the name music_name itself
IsNameField(chunk) == chunk.kind \in {"field", "tight_field"}

\* C21: while the guard scope of a run is open, config.py, read as text, is the
\* captured original but for the value of each music_name assignment, which is the
\* run's project name; with no such assignment in the original the content written
\* is the original.
C21_OnlyNameValueDiffers ==
    \A r \in Runs :
        InGuard(r) =>
            LET original == run[r].original_config
                current == TextRead(configFile)
            IN /\ Len(current) = Len(original)
               /\ \A i \in 1..Len(original) :
                     IF IsNameField(original[i])
                     THEN current[i] = [original[i] EXCEPT !.value = run[r].music_name]
                     ELSE current[i] = original[i]
               /\ (\A i \in 1..Len(original) : ~IsNameField(original[i]))
                      => run[r].config_content = original

\* the call a driver must hold for a lip-sync mode
LipSyncCallOf(mode) ==
    CASE mode = "Jimeng (fast)" -> {"gen_lip_sync_video_jimeng"}
      [] mode = "Wan2.2 (slow, cheap)" -> {"gen_lip_sync_video"}
      [] OTHER -> {}

\* C22: with a provider other than byteplus, the mode of a run is the mode it was
\* called with at every step, no snapshot holds the downgrade warning, and the
\* driver the run wrote holds the lip-sync call of that mode, for the run's
\* project, and no other lip-sync call.
C22_ModeKeptOffByteplus ==
    \A r \in Runs :
        (EnvGet(env, "ARK_PROVIDER", "byteplus") # "byteplus" /\ run[r].pc # "Idle")
            => /\ run[r].lip_sync = run[r].lip_arg
               /\ \A i \in 1..Len(run[r].yielded) : ~Has(run[r].yielded[i], WarnLipSync)
               /\ run[r].pc # "YWarn"
               /\ (Has(run[r].ops, "write_driver") /\ driverFile.exists)
                      => /\ \A i \in 1..Len(driverFile.content) :
                               driverFile.content[i].text \in LipSyncCalls
                                   => /\ driverFile.content[i].text
                                             \in LipSyncCallOf(run[r].lip_arg)
                                      /\ driverFile.content[i].name = run[r].music_name
                         /\ \A t \in LipSyncCallOf(run[r].lip_arg) :
                               \E i \in 1..Len(driverFile.content) :
                                   driverFile.content[i].text = t

\* provider volcengine, the fast mode asked for: stage 2 runs a driver with the
\* Jimeng call
C22_Witness ==
    \E r \in Runs :
        /\ env["ARK_PROVIDER"] = "volcengine"
        /\ run[r].lip_arg = "Jimeng (fast)"
        /\ run[r].pc = "S2Read"
        /\ driverFile.exists
        /\ \E i \in 1..Len(driverFile.content) :
              driverFile.content[i].text = "gen_lip_sync_video_jimeng"

-----------------------------------------------------------------------------
(* Properties of the patcher *)

\* the strings whose presence makes the patcher skip a target, and the texts its
\* replacements look for
MarkersOf(t) ==
    CASE t = CONFIG -> {"ARK_PROVIDER", "byteplussdkarkruntime"}
      [] t = PICTURE -> {"byteplussdkarkruntime"}
      [] t = VIDEO -> {"byteplussdkarkruntime"}
      [] t = GEMINI -> {"get_ark_base_url"}
      [] t = LIPSYNC -> {"config.HUOSHAN_ACCESS_KEY"}

AnchorsOf(t) ==
    CASE t = CONFIG -> {"MUSIC_NAME_1", "OPENAI_ERR"}
      [] t = PICTURE -> {"VOLC_IMPORT", "ARK_CLIENT", "SEEDREAM_LIT", "SEED_LLM_LIT"}
      [] t = VIDEO -> {"VOLC_IMPORT", "INIT_VOLC_URL", "SEEDANCE_LIT"}
      [] t = GEMINI -> {"BASE_URL_LIT", "SEED_LLM_LIT"}
      [] t = LIPSYNC -> {"SET_AK_SK_LIT"}

Warnings == {"WARN pattern not found", "WARN could not find set_ak/set_sk pattern"}

Calls == 1..Len(patchLog)

\* C4: in a run of the patcher that follows another, every existing target is left
\* alone: the call reports "already patched" or "no changes needed", writes nothing,
\* and the file is as the first run left it.
C4_SecondRunNoOp ==
    \A i \in Calls :
        (patchLog[i].run = 2 /\ patchLog[i].before.exists)
            => /\ ~patchLog[i].result.wrote
               /\ patchLog[i].result.file = patchLog[i].before
               /\ LastOf(patchLog[i].result.out).kind
                      \in {"OK already patched", "OK no changes needed"}

\* C7: a call for a target that does not exist prints "skipped, not found", raises
\* nothing and changes nothing, and main goes on to the remaining targets.
C7_MissingTargetSkipped ==
    /\ \A i \in Calls :
          ~patchLog[i].before.exists
              => /\ ~patchLog[i].result.raised
                 /\ patchLog[i].result.out = <<Report("SKIP not found", "")>>
                 /\ patchLog[i].result.file = patchLog[i].before
    /\ mainPc # "raised"
    /\ mainPc = "done"
          => \A t \in Targets :
                \E i \in Calls : patchLog[i].run = mainRuns /\ patchLog[i].target = t

NoMarkerNoAnchor(t, content) ==
    /\ \A m \in MarkersOf(t) : ~In(m, content)
    /\ \A a \in AnchorsOf(t) : ~In(a, content)

\* C8: a call for an existing target that holds none of its markers and none of its
\* anchors prints one warning per pattern (each literal pattern named once), raises
\* nothing, writes nothing and leaves the content as it was.
C8_NoAnchorNoWrite ==
    \A i \in Calls :
        LET e == patchLog[i]
            out == e.result.out
        IN (e.before.exists /\ NoMarkerNoAnchor(e.target, e.before.content))
              => /\ ~e.result.raised
                 /\ ~e.result.wrote
                 /\ e.result.file = e.before
                 /\ Cardinality({j \in 1..Len(out) : out[j].kind \in Warnings})
                        = Cardinality(AnchorsOf(e.target))
                 /\ e.target # LIPSYNC
                       => \A a \in AnchorsOf(e.target) :
                             Count(out, Report("WARN pattern not found", a)) = 1
                 /\ (mainPc = "patching" /\ i = Len(patchLog))
                       => repoFiles[e.target] = e.before

C8_Witness ==
    \E i \in Calls :
        /\ patchLog[i].target = PICTURE
        /\ patchLog[i].before = File(<<"TEXT", "TEXT">>)
        /\ Len(patchLog[i].result.out) = 5

\* the replacements patch_file is given for a target
ReplacementsOf(t) ==
    CASE t = CONFIG -> ConfigReplacements
      [] t = PICTURE -> PictureReplacements
      [] t = VIDEO -> VideoReplacements
      [] t = GEMINI -> GeminiReplacements

\* the content after the first i replacements of the list
After(content, replacements, i) ==
    ApplyReplacements(content, SubSeq(replacements, 1, i), 1).content

Occurs(old, content) == \E k \in 1..Len(content) : content[k] = old

\* b is a with the first occurrence of old, and nothing else, replaced by new
FirstReplaced(a, b, old, new) ==
    \E k \in 1..Len(a) :
        /\ a[k] = old
        /\ \A j \in 1..(k - 1) : a[j] # old
        /\ b = SubSeq(a, 1, k - 1) \o new \o SubSeq(a, k + 1, Len(a))

\* C18: a call of patch_file for an existing target without its marker takes the
\* replacements in list order, each against the content the earlier ones left: one
\* whose old text occurs replaces its first occurrence only, one whose old text
\* does not occur changes nothing and is reported by a warning, in order, and the
\* others are applied all the same; the file is written, once, exactly when the
\* content that results differs from the original.
C18_PatchFileSteps ==
    \A c \in Calls :
        LET e == patchLog[c]
            reps == ReplacementsOf(e.target)
            n == Len(reps)
            cur(i) == After(e.before.content, reps, i)
            absent == {i \in 1..n : ~Occurs(reps[i].old, cur(i - 1))}
            nth(j) == CHOOSE i \in absent : Cardinality({m \in absent : m < i}) = j - 1
            out == e.result.out
        IN ( /\ e.target # LIPSYNC
             /\ e.before.exists
             /\ \A m \in MarkersOf(e.target) : ~In(m, e.before.content) )
              => /\ \A i \in 1..n :
                       IF i \in absent
                       THEN cur(i) = cur(i - 1)
                       ELSE FirstReplaced(cur(i - 1), cur(i), reps[i].old, reps[i].new)
                 /\ Len(out) = Cardinality(absent) + 1
                 /\ \A j \in 1..Cardinality(absent) :
                       out[j] = Report("WARN pattern not found", reps[nth(j)].old)
                 /\ e.result.file.content = cur(n)
                 /\ e.result.wrote <=> cur(n) # e.before.content
                 /\ LastOf(out).kind = (IF e.result.wrote THEN "PATCHED"
                                                         ELSE "OK no changes needed")
                 /\ ~e.result.raised /\ e.result.ret
                 /\ (mainPc = "patching" /\ c = Len(patchLog))
                       => repoFiles[e.target] = File(cur(n))

\* picture.py holds the import twice and none of the other anchors: the first
\* import is replaced, the second is kept, three warnings are printed
C18_Witness ==
    \E c \in Calls :
        /\ patchLog[c].target = PICTURE
        /\ patchLog[c].before = File(<<"VOLC_IMPORT", "VOLC_IMPORT">>)
        /\ patchLog[c].result.file = File(<<"BP_TRY", "VOLC_IMPORT", "VOLC_IMPORT">>)
        /\ patchLog[c].result.wrote
        /\ Len(patchLog[c].result.out) = 4

-----------------------------------------------------------------------------
(* Properties of the settings *)

KnownProviders == {"byteplus", "volcengine"}

\* C11: whatever was saved and loaded, the provider the program uses (the one the
\* status report names, the one a run would read for its feature check) is byteplus
\* or volcengine.
C11_ProviderKnown ==
    /\ EnvGet(env, "ARK_PROVIDER", "byteplus") \in KnownProviders
    /\ status.prov \in KnownProviders

\* whitespace only, or nothing
BlankInput(v) == v \in {"", " "}

\* C12: after a save, each API or model key whose input was blank holds what it held
\* before (a non-empty value is never cleared), each key given a non-blank input
\* holds that input stripped, and no key other than these and ARK_PROVIDER changed.
C12_BlankKeepsValue ==
    lastSave.done =>
        /\ \A i \in 1..Len(all_keys) :
              /\ BlankInput(lastSave.values[i])
                     => env[all_keys[i]] = lastSave.before[all_keys[i]]
              /\ ~BlankInput(lastSave.values[i])
                     => env[all_keys[i]] = Strip(lastSave.values[i])
              /\ (lastSave.before[all_keys[i]] \notin {Absent, ""})
                     => env[all_keys[i]] \notin {Absent, ""}
        /\ \A k \in EnvKeys :
              env[k] # lastSave.before[k]
                  => \/ k = "ARK_PROVIDER"
                     \/ \E i \in 1..Len(all_keys) :
                            all_keys[i] = k /\ ~BlankInput(lastSave.values[i])

\* a save with a blank typed over a configured key, and another key given a value
C12_Witness ==
    /\ lastSave.done
    /\ lastSave.before["GEMINI_API_KEY"] = "k"
    /\ lastSave.values[1] = " "
    /\ env["GEMINI_API_KEY"] = "k"
    /\ lastSave.values[8] = " j "
    /\ lastSave.before["GPU_ID"] = "0"
    /\ env["GPU_ID"] = "j"

-----------------------------------------------------------------------------
(* Properties of the pure helpers *)

\* C13: what sanitize_music_name returns holds only characters of [A-Za-z0-9_], and
\* sanitizing it again returns it unchanged.
C13_SanitizeIdempotent ==
    /\ \A i \in 1..Len(pureCall.out) : pureCall.out[i] \in AllowedChars
    /\ pureCall.pc = "twice" => pureCall.again = pureCall.out

\* a name of characters outside the class, sanitized twice
C13_Witness ==
    /\ pureCall.pc = "twice"
    /\ pureCall.arg.chars = <<" ", "e_acute">>
    /\ pureCall.out = <<"_", "_">>

CallsOf(script, texts) == {i \in 1..Len(script) : script[i].text \in texts}

\* C14: the driver built for a mode and a resolution holds the Jimeng call exactly
\* when the mode is the fast one, the Wan2.2 call exactly when it is the slow one,
\* so at most one lip-sync call, with the project name as argument; it holds
\* exactly one full_video_gen call, as its last statement, with the project name
\* and a resolution that is 480p or 720p.
C14_DriverShape ==
    pureCall.pc = "built" =>
        LET script == pureCall.script
            jimeng == CallsOf(script, {"gen_lip_sync_video_jimeng"})
            wan == CallsOf(script, {"gen_lip_sync_video"})
            final == CallsOf(script, {"full_video_gen"})
        IN /\ Cardinality(jimeng) = (IF pureCall.lip_sync = "Jimeng (fast)" THEN 1 ELSE 0)
           /\ Cardinality(wan) = (IF pureCall.lip_sync = "Wan2.2 (slow, cheap)" THEN 1 ELSE 0)
           /\ Cardinality(jimeng \cup wan) <= 1
           /\ \A i \in jimeng \cup wan : script[i].name = pureCall.music_name
           /\ final = {Len(script)}
           /\ script[Len(script)].name = pureCall.music_name
           /\ script[Len(script)].res \in {"480p", "720p"}
           /\ script[Len(script)].res = "480p" <=> pureCall.resolution = "480p"

\* the driver of the slow mode, built with a resolution the dropdown does not offer
C14_Witness ==
    /\ pureCall.pc = "built"
    /\ pureCall.lip_sync = "Wan2.2 (slow, cheap)"
    /\ pureCall.resolution = "1080p"
    /\ pureCall.script[Len(pureCall.script)].res = "720p"
    /\ pureCall.music_name = <<"a", "_">>

====
